---- MODULE Spec2Model ----
(***************************************************************************)
(* Model of scripts/create_diagrams.py: the main block creates the output *)
(* directory and runs four diagram operations in sequence; each operation *)
(* builds a static graph inside a `with Diagram(...)` block whose exit     *)
(* writes the graph source, renders <filename>.png next to it and removes  *)
(* the graph source.                                                       *)
(***************************************************************************)
EXTENDS Naturals, Sequences, FiniteSets, TLC

VARIABLES pc,        \* position of the main block
          dirExists, \* OUTPUT_DIR exists
          writable,  \* entries can be created in / removed from OUTPUT_DIR
          creatable, \* OUTPUT_DIR can be created when it is absent
          files,     \* names present in OUTPUT_DIR
          preFiles,  \* names present in OUTPUT_DIR when the current run began
          preExists, \* OUTPUT_DIR existed when the current run began
          raised,    \* what raised the exception that ended the current run, or "none"
          written,   \* [by, name]: names written by the current run, per operation
          graphs,    \* per diagram, the graph built by the body of its with-block
          stdout,    \* lines printed by the current run
          runs,      \* number of the current run
          prevDone,  \* the run before the current one ended successfully
          prevFiles, \* names present in OUTPUT_DIR when the previous run ended
          ppc        \* per diagram, position of its operation when run interleaved

vars == <<pc, dirExists, writable, creatable, files, preFiles, preExists, raised, written,
          graphs, stdout, runs, prevDone, prevFiles, ppc>>

\* number of consecutive invocations of the script that are explored
MaxRuns == 2

-----------------------------------------------------------------------------
\* The four diagrams, in the order the main block runs them.

Diagrams == <<"mfe", "deployment", "component", "dataflow">>

DiagramSet == {Diagrams[i] : i \in DOMAIN Diagrams}

\* first positional argument of Diagram(...): the title, as its words
Title(d) ==
  CASE d = "mfe"        -> <<"MFE", "Demo", "Architecture">>
    [] d = "deployment" -> <<"AWS", "Deployment", "Architecture">>
    [] d = "component"  -> <<"Container", "Application", "Components">>
    [] d = "dataflow"   -> <<"MFE", "Data", "Flow">>

\* str.lower() on the words that occur in the titles
Lower(w) ==
  CASE w = "MFE"          -> "mfe"
    [] w = "Demo"         -> "demo"
    [] w = "Architecture" -> "architecture"
    [] w = "AWS"          -> "aws"
    [] w = "Deployment"   -> "deployment"
    [] w = "Container"    -> "container"
    [] w = "Application"  -> "application"
    [] w = "Components"   -> "components"
    [] w = "Data"         -> "data"
    [] w = "Flow"         -> "flow"

RECURSIVE JoinLower(_)
JoinLower(ws) ==
  IF Len(ws) = 1 THEN Lower(ws[1])
  ELSE Lower(ws[1]) \o "_" \o JoinLower(Tail(ws))

\* the file name derived from a diagram's title, as the diagram library derives
\* it when no filename argument is passed: "_".join(title.split()).lower()
TitleFilename(d) == JoinLower(Title(d))

\* a file name copied from the first diagram into the second one
FilenameCopied(d) ==
  CASE d = "mfe"        -> "mfe-architecture"
    [] d = "deployment" -> "mfe-architecture"
    [] d = "component"  -> "component-architecture"
    [] d = "dataflow"   -> "data-flow"

\* the filename= argument of Diagram(...), relative to OUTPUT_DIR
Filename(d) ==
  CASE d = "mfe"        -> "mfe-architecture"
    [] d = "deployment" -> "deployment-architecture"
    [] d = "component"  -> "component-architecture"
    [] d = "dataflow"   -> "data-flow"

\* A directory entry is a stem and an extension ("" when there is none).
File(stem, ext) == [stem |-> stem, ext |-> ext]

\* the entry's name as os.listdir returns it
Name(f) == IF f.ext = "" THEN f.stem ELSE f.stem \o "." \o f.ext

\* f.endswith('.png')
EndsWithPng(f) == f.ext = "png"

\* the graph source the exit of the with-block writes: <filename>
Src(d) == File(Filename(d), "")

\* the image is named after the title instead of the filename argument
PngFromTitle(d) == File(TitleFilename(d), "png")

\* the image the exit of the with-block renders: <filename>.png
Png(d) == File(Filename(d), "png")

-----------------------------------------------------------------------------
\* Graph construction: the bodies of the four with-blocks.

\* a node declared inside the clusters `cluster` (outermost first)
Node(label, icon, cluster) == [label |-> label, icon |-> icon, cluster |-> cluster]

\* `src >> dst` drawn from dst to src
EdgeReversed(src, dst) == {<<dst, src>>}

\* `src >> dst`: one directed edge
Edge(src, dst) == {<<src, dst>>}

\* `src >> [n1, ...]` reaching only the first node of the list
ConnectFirst(src, targets) == {<<src, targets[1]>>}

\* `src >> [n1, ...]`: one directed edge from src to every node of the list
Connect(src, targets) == {<<src, targets[i]>> : i \in DOMAIN targets}

EmptyGraph == [built |-> FALSE, nodes |-> {}, edges |-> {}]

Graph(nodes, edges) == [built |-> TRUE, nodes |-> nodes, edges |-> edges]

MfeArchitectureGraph ==
  LET aws         == <<"AWS Cloud">>
      bucket      == aws \o <<"S3 Bucket (app.mfeworld.com)">>
      users       == Node("End Users", "Users", <<>>)
      cdn         == Node("CloudFront CDN", "CloudFront", aws)
      cognito     == Node("Cognito Auth", "Cognito", aws)
      container   == Node("Container\n(Port 4000)\n- Header/Navbar\n- Auth Context\n- Router",
                          "React", bucket \o <<"Container Application">>)
      home        == Node("Home MFE\n(Port 3001)", "React", bucket \o <<"Micro Frontends">>)
      preferences == Node("Preferences MFE\n(Port 3002)", "React", bucket \o <<"Micro Frontends">>)
      account     == Node("Account MFE\n(Port 3003)", "React", bucket \o <<"Micro Frontends">>)
      admin       == Node("Admin MFE\n(Port 3004)", "React", bucket \o <<"Micro Frontends">>)
  IN  Graph({users, cdn, cognito, container, home, preferences, account, admin},
            Edge(users, cdn) \cup Edge(cdn, container) \cup Edge(container, cognito)
              \cup Connect(container, <<home, preferences, account, admin>>))

DeploymentArchitectureGraph ==
  LET aws     == <<"AWS Cloud">>
      hosting == aws \o <<"Static Hosting">>
      folders == hosting \o <<"Application Folders">>
      browser == Node("Browser", "Client", <<"Client">>)
      cdn     == Node("CloudFront\nCDN", "CloudFront", aws)
      cognito == Node("Cognito\nUser Pool", "Cognito", aws \o <<"Authentication">>)
      s3      == Node("S3 Bucket", "S3", hosting)
  IN  Graph({browser, cdn, cognito, s3,
             Node("container/", "S3", folders), Node("home/", "S3", folders),
             Node("preferences/", "S3", folders), Node("account/", "S3", folders),
             Node("admin/", "S3", folders)},
            Edge(browser, cdn) \cup Edge(cdn, s3) \cup Edge(browser, cognito))

ComponentArchitectureGraph ==
  LET app         == <<"Container App (apps/container)">>
      config      == app \o <<"Configuration Layer">>
      providers   == app \o <<"Context Providers">>
      core        == app \o <<"Core Components">>
      services    == app \o <<"Services Layer">>
      mfe         == <<"Micro Frontends">>
      config_mfe  == Node("mfeRegistry.ts", "TypeScript", config)
      auth_ctx    == Node("AuthContext", "React", providers)
      header      == Node("Header", "React", core)
      navbar      == Node("Navbar", "React", core)
      mfe_loader  == Node("MFELoader", "React", core)
      home_mfe    == Node("Home MFE", "React", mfe)
      prefs_mfe   == Node("Preferences MFE", "React", mfe)
      account_mfe == Node("Account MFE", "React", mfe)
      admin_mfe   == Node("Admin MFE", "React", mfe)
  IN  Graph({config_mfe, Node("routeMappings.ts", "TypeScript", config),
             Node("theme.ts", "TypeScript", config),
             auth_ctx, Node("DataContext", "React", providers),
             Node("UserPreferencesContext", "React", providers),
             header, navbar, mfe_loader, Node("ErrorBoundary", "React", core),
             Node("authService", "TypeScript", services),
             Node("storageService", "TypeScript", services),
             Node("eventBus", "TypeScript", services),
             Node("packages/shared-hooks", "TypeScript", <<"Shared Packages">>),
             home_mfe, prefs_mfe, account_mfe, admin_mfe},
            Edge(config_mfe, mfe_loader) \cup Edge(auth_ctx, header)
              \cup Edge(auth_ctx, navbar)
              \cup Connect(mfe_loader, <<home_mfe, prefs_mfe, account_mfe, admin_mfe>>))

DataFlowGraph ==
  LET app       == <<"Container Application">>
      browser   == Node("Browser", "Client", <<"User Interface">>)
      router    == Node("React Router", "React", app \o <<"Routing">>)
      auth_ctx  == Node("AuthContext", "React", app \o <<"State Management">>)
      event_bus == Node("EventBus", "TypeScript", app \o <<"Communication">>)
      cognito   == Node("AWS Cognito", "Cognito", <<"Authentication">>)
      mfes      == Node("MFEs\n(Home, Account,\nPreferences, Admin)", "React",
                        <<"Micro Frontends">>)
  IN  Graph({browser, router, auth_ctx,
             Node("DataContext", "React", app \o <<"State Management">>),
             event_bus, Node("LocalStorage", "TypeScript", app \o <<"Communication">>),
             cognito, mfes},
            Edge(browser, router) \cup Edge(router, mfes) \cup Edge(auth_ctx, cognito)
              \cup Edge(mfes, event_bus) \cup Edge(event_bus, auth_ctx))

\* the graph the body of diagram d's with-block builds
BuildGraph(d) ==
  CASE d = "mfe"        -> MfeArchitectureGraph
    [] d = "deployment" -> DeploymentArchitectureGraph
    [] d = "component"  -> ComponentArchitectureGraph
    [] d = "dataflow"   -> DataFlowGraph

-----------------------------------------------------------------------------
\* The exit of a with-block: Diagram.render() writes the graph source into
\* OUTPUT_DIR, has the backend render the image next to it, and removes the
\* graph source.  Each of the three steps needs its permission and raises
\* otherwise; an existing entry is overwritten in place, a new entry or a
\* removal needs a writable directory.

\* every write is let through, whatever the directory's permissions
CanWriteAlways(f, fs, w) == TRUE

\* open(f, 'w') succeeds: f exists already (truncated in place), or the
\* directory lets a new entry be created
CanWrite(f, fs, w) == f \in fs \/ w

SaveOk(d, fs, w) == CanWrite(Src(d), fs, w)

SaveFiles(d, fs) == fs \cup {Src(d)}

\* the backend is available and can write the image
RenderOk(d, fs, w, backend) == backend /\ Src(d) \in fs /\ CanWrite(Png(d), fs, w)

\* an existing image is kept and the new one gets a fresh name
RenderFilesFresh(d, fs) ==
  IF Png(d) \in fs THEN fs \cup {File(Filename(d) \o "-1", "png")}
  ELSE fs \cup {Png(d)}

RenderFiles(d, fs) == fs \cup {Png(d)}

\* os.remove(filename) of the graph source
RemoveOk(d, fs, w) == w /\ Src(d) \in fs

\* the graph source is left behind
RemoveFilesKeep(d, fs) == fs

RemoveFiles(d, fs) == fs \ {Src(d)}

\* One whole diagram operation on the directory content fs: whether it
\* returned normally, the content it leaves and the names it wrote.
RunDiagram(d, fs, w, backend) ==
  IF ~SaveOk(d, fs, w)
    THEN [ok |-> FALSE, files |-> fs, wrote |-> {}]
  ELSE LET f1 == SaveFiles(d, fs) IN
    IF ~RenderOk(d, f1, w, backend)
      THEN [ok |-> FALSE, files |-> f1, wrote |-> {Src(d)}]
    ELSE LET f2 == RenderFiles(d, f1) IN
      IF ~RemoveOk(d, f2, w)
        THEN [ok |-> FALSE, files |-> f2, wrote |-> {Src(d), Png(d)}]
      ELSE [ok |-> TRUE, files |-> RemoveFiles(d, f2), wrote |-> {Src(d), Png(d)}]

\* sorted(os.listdir(OUTPUT_DIR)) over the names that can occur: the names in
\* code-point order
SortedNames ==
  << File("README", "md"),
     File("component-architecture", ""), File("component-architecture", "png"),
     File("data-flow", ""), File("data-flow", "png"),
     File("deployment-architecture", ""), File("deployment-architecture", "png"),
     File("mfe-architecture", ""), File("mfe-architecture", "png"),
     File("old", "png") >>

Listdir(fs) == SelectSeq(SortedNames, LAMBDA f : f \in fs)

\* the lines of the final loop: one per entry that ends with .png
Listing(fs) ==
  LET pngs == SelectSeq(Listdir(fs), EndsWithPng)
  IN  [i \in DOMAIN pngs |-> "  - " \o Name(pngs[i])]

-----------------------------------------------------------------------------
\* The main block.

OpPc(k) == <<"op1", "op2", "op3", "op4">>[k]

\* where the main block goes when operation k returns
AfterOp(k) == IF k = Len(Diagrams) THEN "report" ELSE OpPc(k + 1)

\* an exception of operation k is swallowed and the main block goes on
OnErrorContinue(k) == AfterOp(k)

\* an exception of operation k propagates out of the main block
OnError(k) == "failed"

ProgressLine(k) ==
  << "1. Creating MFE Architecture diagram...",
     "2. Creating Deployment Architecture diagram...",
     "3. Creating Component Architecture diagram...",
     "4. Creating Data Flow diagram..." >>[k]

Banner == <<"Creating architectural diagrams...", "Output directory: docs/diagrams">>

SuccessLines == <<"", "Diagrams created successfully!", "Files created:">>

WrittenBy(d, names) == {[by |-> d, name |-> f] : f \in names}

PreExisting ==
  {File("README", "md"), File("old", "png"),
   File("mfe-architecture", ""), File("mfe-architecture", "png")}

NoGraphs == [d \in DiagramSet |-> EmptyGraph]

Init ==
  /\ pc = "start"
  /\ dirExists \in BOOLEAN
  /\ writable \in BOOLEAN
  /\ creatable \in BOOLEAN
  /\ dirExists => creatable
  /\ ~dirExists => ~writable
  /\ files \in SUBSET PreExisting
  /\ ~dirExists => files = {}
  /\ preFiles = files
  /\ preExists = dirExists
  /\ raised = "none"
  /\ written = {}
  /\ graphs = NoGraphs
  /\ stdout = <<>>
  /\ runs = 1
  /\ prevDone = FALSE
  /\ prevFiles = {}
  /\ ppc = [d \in DiagramSet |-> "idle"]

\* os.makedirs(OUTPUT_DIR) without exist_ok: an existing directory is an error
MakedirsNoExistOk(next) ==
  /\ pc = "start"
  /\ stdout' = stdout \o Banner
  /\ IF dirExists
       THEN pc' = "failed" /\ raised' = "makedirs" /\ UNCHANGED <<dirExists, writable>>
       ELSE IF creatable
         THEN pc' = next /\ dirExists' = TRUE /\ writable' = TRUE /\ UNCHANGED raised
         ELSE pc' = "failed" /\ raised' = "makedirs" /\ UNCHANGED <<dirExists, writable>>
  /\ UNCHANGED <<creatable, files, preFiles, preExists, written, graphs, runs,
                 prevDone, prevFiles, ppc>>

\* the two opening prints and os.makedirs(OUTPUT_DIR, exist_ok=True)
Makedirs(next) ==
  /\ pc = "start"
  /\ stdout' = stdout \o Banner
  /\ IF dirExists
       THEN pc' = next /\ UNCHANGED <<dirExists, writable, raised>>
       ELSE IF creatable
         THEN pc' = next /\ dirExists' = TRUE /\ writable' = TRUE /\ UNCHANGED raised
         ELSE pc' = "failed" /\ raised' = "makedirs" /\ UNCHANGED <<dirExists, writable>>
  /\ UNCHANGED <<creatable, files, preFiles, preExists, written, graphs, runs,
                 prevDone, prevFiles, ppc>>

\* print of step k and the call of the k-th diagram operation
DiagramStep(k) ==
  /\ pc = OpPc(k)
  /\ \E backend \in BOOLEAN :
       LET d == Diagrams[k]
           r == RunDiagram(d, files, writable, backend)
       IN  /\ stdout' = Append(stdout, ProgressLine(k))
           /\ graphs' = [graphs EXCEPT ![d] = BuildGraph(d)]
           /\ files' = r.files
           /\ written' = written \cup WrittenBy(d, r.wrote)
           /\ pc' = IF r.ok THEN AfterOp(k) ELSE OnError(k)
           /\ raised' = IF r.ok THEN raised ELSE d
  /\ UNCHANGED <<dirExists, writable, creatable, preFiles, preExists, runs,
                 prevDone, prevFiles, ppc>>

create_mfe_architecture_diagram == DiagramStep(1)

create_deployment_architecture_diagram == DiagramStep(2)

create_component_architecture_diagram == DiagramStep(3)

create_data_flow_diagram == DiagramStep(4)

\* the closing prints and the loop over sorted(os.listdir(OUTPUT_DIR))
Report ==
  /\ pc = "report"
  /\ stdout' = stdout \o SuccessLines \o Listing(files)
  /\ pc' = "done"
  /\ UNCHANGED <<dirExists, writable, creatable, files, preFiles, preExists,
                 raised, written, graphs, runs, prevDone, prevFiles, ppc>>

\* the script is invoked again on the directory the previous run left
Rerun ==
  /\ pc \in {"done", "failed"}
  /\ runs < MaxRuns
  /\ runs' = runs + 1
  /\ pc' = "start"
  /\ prevDone' = (pc = "done")
  /\ prevFiles' = files
  /\ preFiles' = files
  /\ preExists' = dirExists
  /\ raised' = "none"
  /\ written' = {}
  /\ graphs' = NoGraphs
  /\ stdout' = <<>>
  /\ UNCHANGED <<dirExists, writable, creatable, files, ppc>>

Main == Makedirs("op1")

Next ==
  \/ Main
  \/ create_mfe_architecture_diagram
  \/ create_deployment_architecture_diagram
  \/ create_component_architecture_diagram
  \/ create_data_flow_diagram
  \/ Report
  \/ Rerun

Spec == Init /\ [][Next]_vars

TypeOK ==
  /\ pc \in {"start", "op1", "op2", "op3", "op4", "report", "done", "failed", "par"}
  /\ runs \in 1..MaxRuns

-----------------------------------------------------------------------------
\* The four diagram operations run interleaved, after the directory has been
\* created once: each operation is its own sequence of steps (body of the
\* with-block, then the three steps of its exit) on the shared directory.

ParMain == Makedirs("par")

ParUnchanged ==
  UNCHANGED <<pc, dirExists, writable, creatable, preFiles, preExists, raised,
              stdout, runs, prevDone, prevFiles>>

\* the body of d's with-block
Build(d) ==
  /\ pc = "par"
  /\ ppc[d] = "idle"
  /\ graphs' = [graphs EXCEPT ![d] = BuildGraph(d)]
  /\ ppc' = [ppc EXCEPT ![d] = "built"]
  /\ UNCHANGED <<files, written>>
  /\ ParUnchanged

\* the graph source is written
Save(d) ==
  /\ ppc[d] = "built"
  /\ IF SaveOk(d, files, writable)
       THEN /\ files' = SaveFiles(d, files)
            /\ written' = written \cup WrittenBy(d, {Src(d)})
            /\ ppc' = [ppc EXCEPT ![d] = "saved"]
       ELSE /\ ppc' = [ppc EXCEPT ![d] = "save_failed"]
            /\ UNCHANGED <<files, written>>
  /\ UNCHANGED graphs
  /\ ParUnchanged

\* the backend renders the image
Render(d) ==
  /\ ppc[d] = "saved"
  /\ \E backend \in BOOLEAN :
       IF ~backend
         THEN /\ ppc' = [ppc EXCEPT ![d] = "backend_failed"]
              /\ UNCHANGED <<files, written>>
       ELSE IF RenderOk(d, files, writable, backend)
         THEN /\ files' = RenderFiles(d, files)
              /\ written' = written \cup WrittenBy(d, {Png(d)})
              /\ ppc' = [ppc EXCEPT ![d] = "rendered"]
         ELSE /\ ppc' = [ppc EXCEPT ![d] = "render_failed"]
              /\ UNCHANGED <<files, written>>
  /\ UNCHANGED graphs
  /\ ParUnchanged

\* the graph source is removed
Remove(d) ==
  /\ ppc[d] = "rendered"
  /\ IF RemoveOk(d, files, writable)
       THEN /\ files' = RemoveFiles(d, files)
            /\ ppc' = [ppc EXCEPT ![d] = "done"]
       ELSE /\ ppc' = [ppc EXCEPT ![d] = "remove_failed"]
            /\ UNCHANGED files
  /\ UNCHANGED <<graphs, written>>
  /\ ParUnchanged

NextPar ==
  \/ ParMain
  \/ \E d \in DiagramSet : Build(d)
  \/ \E d \in DiagramSet : Save(d)
  \/ \E d \in DiagramSet : Render(d)
  \/ \E d \in DiagramSet : Remove(d)

SpecPar == Init /\ [][NextPar]_vars

\* the directory content after the first k operations of a sequential run
\* in which the backend is available
RECURSIVE SequentialFiles(_, _, _)
SequentialFiles(k, fs, w) ==
  IF k = 0 THEN fs
  ELSE RunDiagram(Diagrams[k], SequentialFiles(k - 1, fs, w), w, TRUE).files

-----------------------------------------------------------------------------
\* Properties.

Range(q) == {q[i] : i \in DOMAIN q}

\* operation k has been called in the current run
Started(k) == ProgressLine(k) \in Range(stdout)

\* operation k has been called and has returned normally
Returned(k) == Started(k) /\ raised # Diagrams[k]

FourNames ==
  {"mfe-architecture.png", "deployment-architecture.png",
   "component-architecture.png", "data-flow.png"}

\* the names the current run wrote
WrittenNames == {r.name : r \in written}

\* the images operation d wrote
ImagesBy(d) == {r.name : r \in {x \in written : x.by = d /\ EndsWithPng(x.name)}}

\* C1: a run that starts with the output directory absent or empty and in
\* which no step fails ends with exactly the four files mfe-architecture.png,
\* deployment-architecture.png, component-architecture.png and data-flow.png
\* in the directory, each written by its own diagram operation.
C1_FourFilesOnCleanRun ==
  (pc = "done" /\ preFiles = {}) =>
     /\ {Name(f) : f \in files} = FourNames
     /\ Cardinality(files) = 4
     /\ \A d \in DiagramSet :
          /\ ImagesBy(d) = {Png(d)}
          /\ \A e \in DiagramSet \ {d} : Png(d) \notin ImagesBy(e)

C1_Witness == pc = "done" /\ preFiles = {} /\ ~preExists

\* C2: when the k-th diagram operation fails, no later operation is started,
\* no file of a later diagram is written, and neither the success message
\* nor the file listing is printed.
C2_AbortOnFirstFailure ==
  \A k \in DOMAIN Diagrams :
    raised = Diagrams[k] =>
      /\ pc = "failed"
      /\ \A j \in DOMAIN Diagrams :
           j > k => /\ ~Started(j)
                    /\ ~graphs[Diagrams[j]].built
                    /\ \A r \in written : r.by # Diagrams[j]
                    /\ (Src(Diagrams[j]) \in files => Src(Diagrams[j]) \in preFiles)
                    /\ (Png(Diagrams[j]) \in files => Png(Diagrams[j]) \in preFiles)
      /\ Range(SuccessLines) \cap Range(stdout) = {}
      /\ Len(stdout) = Len(Banner) + k

C2_Witness ==
  /\ raised = "deployment"
  /\ pc = "failed"
  /\ Png("mfe") \in WrittenNames
  /\ Png("component") \notin files

\* the lines printed after "Files created:"
ReportedLines ==
  {stdout[i] : i \in {j \in DOMAIN stdout :
                        \E h \in DOMAIN stdout : h < j /\ stdout[h] = "Files created:"}}

\* C3: the names listed after "Files created:" at the end of a successful run
\* are exactly the names of the four files the run wrote, whatever the
\* directory held before the run.
C3_ReportListsProducedFiles ==
  pc = "done" =>
    ReportedLines = {"  - " \o Name(f) : f \in UNION {ImagesBy(d) : d \in DiagramSet}}

\* C4: the directory exists whenever a diagram operation can run or has
\* written (an absent directory is created first), and with the directory
\* already present the creation step goes on to the first diagram operation
\* without an error.
C4_DirectoryCreatedFirst ==
  /\ [](pc \in {"op1", "op2", "op3", "op4", "report", "done"} => dirExists)
  /\ [](written # {} => dirExists)
  /\ [][(pc = "start" /\ dirExists) => (pc' = "op1" /\ raised' = "none")]_vars
  /\ [][(pc = "start" /\ ~dirExists /\ creatable) => (pc' = "op1" /\ dirExists')]_vars

C4_Witness == ~preExists /\ dirExists /\ pc = "op2" /\ Png("mfe") \in files

\* the directory cannot be written: it exists and is read-only, or it is
\* absent and cannot be created
NotWritable == (dirExists /\ ~writable) \/ (~dirExists /\ ~creatable)

\* C5 as stated: with the output directory not writable the run fails and the
\* directory holds no file the run wrote.
C5_NoFileWrittenWhenNotWritable ==
  NotWritable =>
    /\ pc \notin {"report", "done"}
    /\ WrittenNames \cap files = {}

\* C5 as amended: with the output directory not writable the run fails at the
\* first diagram operation at the latest and the directory holds the same
\* names as before the run; the only files the run can have written are files
\* that existed before the run and were overwritten in place.
C5_NoNewFileWhenNotWritable ==
  NotWritable =>
    /\ pc \in {"start", "op1", "failed"}
    /\ files = preFiles
    /\ WrittenNames \subseteq preFiles

C5_Witness ==
  /\ dirExists /\ ~writable /\ pc = "failed" /\ raised = "mfe"
  /\ WrittenNames = {Src("mfe")}

\* C6: the names in the directory after a successful run that directly follows
\* a successful run are the names the directory held after the first of the two.
C6_SecondRunSameNames ==
  (pc = "done" /\ prevDone) => files = prevFiles

C6_Witness == pc = "done" /\ prevDone /\ runs > 1 /\ Cardinality(files) >= 4

\* C7 as stated: each diagram operation that returns writes exactly one image,
\* named after the title passed to that diagram.
C7_ImageNamedAfterTitle ==
  \A k \in DOMAIN Diagrams :
    Returned(k) => ImagesBy(Diagrams[k]) = {PngFromTitle(Diagrams[k])}

\* C7 as amended: each diagram operation that returns writes exactly one image,
\* named <filename>.png after the filename argument passed to that diagram
\* (mfe-architecture, deployment-architecture, component-architecture,
\* data-flow), which is not the name derived from the diagram's title.
C7_ImageNamedAfterFilename ==
  \A k \in DOMAIN Diagrams :
    Returned(k) =>
      LET d == Diagrams[k] IN
        /\ Cardinality(ImagesBy(d)) = 1
        /\ \A f \in ImagesBy(d) :
             /\ Name(f) = Filename(d) \o ".png"
             /\ Name(f) # TitleFilename(d) \o ".png"
             /\ f \in files

C7_Witness == \A k \in DOMAIN Diagrams : Returned(k)

AllDone == \A d \in DiagramSet : ppc[d] = "done"

\* C8: in every interleaving of the four diagram operations (after the
\* directory was created once) each name is written by one operation only, no
\* operation fails on the directory because of another, and when all four
\* have finished the directory holds what the sequential run leaves: the four
\* images next to the names that were there before.
C8_InterleavingsAgree ==
  /\ \A r1 \in written : \A r2 \in written : r1.name = r2.name => r1.by = r2.by
  /\ writable =>
       \A d \in DiagramSet : ppc[d] \notin {"save_failed", "render_failed", "remove_failed"}
  /\ AllDone =>
       /\ files = SequentialFiles(Len(Diagrams), preFiles, writable)
       /\ FourNames \subseteq {Name(f) : f \in files}
       /\ Cardinality({Png(d) : d \in DiagramSet}) = 4

C8_Witness == AllDone /\ pc = "par" /\ Cardinality(files) >= 4

\* the node of graph g with the given label
NodeOf(g, label) == CHOOSE n \in g.nodes : n.label = label

\* the pairs joined by a path of at least one edge
Reach(edges) ==
  LET ns == {e[1] : e \in edges} \cup {e[2] : e \in edges}
      RECURSIVE Grow(_, _)
      Grow(r, n) ==
        IF n = 0 THEN r
        ELSE Grow(r \cup {p \in ns \X ns :
                            \E b \in ns : <<p[1], b>> \in r /\ <<b, p[2]>> \in edges},
                  n - 1)
  IN  Grow(edges, Cardinality(ns))

HasCycle(edges) == \E p \in Reach(edges) : p[1] = p[2]

DataFlowBuilt == graphs["dataflow"].built

\* C9 as stated: the data-flow graph has the edges browser -> router,
\* router -> sub-applications, sub-applications -> event bus, event bus ->
\* auth context and an edge in both directions between auth context and the
\* auth service, and these edges form a cycle.
C9_DataFlowCycle ==
  DataFlowBuilt =>
    LET g         == graphs["dataflow"]
        browser   == NodeOf(g, "Browser")
        router    == NodeOf(g, "React Router")
        auth_ctx  == NodeOf(g, "AuthContext")
        event_bus == NodeOf(g, "EventBus")
        cognito   == NodeOf(g, "AWS Cognito")
        mfes      == NodeOf(g, "MFEs\n(Home, Account,\nPreferences, Admin)")
    IN  /\ {<<browser, router>>, <<router, mfes>>, <<mfes, event_bus>>,
            <<event_bus, auth_ctx>>, <<auth_ctx, cognito>>, <<cognito, auth_ctx>>}
              \subseteq g.edges
        /\ HasCycle(g.edges)

\* C9 as amended: the data-flow graph has exactly the five edges browser ->
\* router, router -> sub-applications, sub-applications -> event bus, event
\* bus -> auth context and auth context -> auth service; there is no edge
\* from the auth service back to the auth context and the edges form a
\* path without a cycle.
C9_DataFlowPath ==
  DataFlowBuilt =>
    LET g         == graphs["dataflow"]
        browser   == NodeOf(g, "Browser")
        router    == NodeOf(g, "React Router")
        auth_ctx  == NodeOf(g, "AuthContext")
        event_bus == NodeOf(g, "EventBus")
        cognito   == NodeOf(g, "AWS Cognito")
        mfes      == NodeOf(g, "MFEs\n(Home, Account,\nPreferences, Admin)")
    IN  /\ g.edges = {<<browser, router>>, <<router, mfes>>, <<mfes, event_bus>>,
                      <<event_bus, auth_ctx>>, <<auth_ctx, cognito>>}
        /\ <<cognito, auth_ctx>> \notin g.edges
        /\ ~HasCycle(g.edges)
        /\ <<browser, cognito>> \in Reach(g.edges)

C9_Witness == DataFlowBuilt /\ Cardinality(graphs["dataflow"].edges) = 5

MfeBuilt == graphs["mfe"].built

\* C10: the architecture graph has exactly eight nodes (one end-users node,
\* one CDN, one auth node, one container node, four sub-application nodes) and
\* exactly seven edges: users -> CDN, CDN -> container, container -> auth and
\* container -> each sub-application; only the container has an edge to a
\* sub-application.
C10_ArchitectureShape ==
  MfeBuilt =>
    LET g         == graphs["mfe"]
        WithIcon(i) == {n \in g.nodes : n.icon = i}
        InCluster(c) == {n \in g.nodes : Len(n.cluster) > 0 /\ n.cluster[Len(n.cluster)] = c}
        users     == WithIcon("Users")
        cdn       == WithIcon("CloudFront")
        auth      == WithIcon("Cognito")
        container == InCluster("Container Application")
        subapps   == InCluster("Micro Frontends")
    IN  /\ Cardinality(g.nodes) = 8
        /\ Cardinality(users) = 1 /\ Cardinality(cdn) = 1 /\ Cardinality(auth) = 1
        /\ Cardinality(container) = 1 /\ Cardinality(subapps) = 4
        /\ g.nodes = users \cup cdn \cup auth \cup container \cup subapps
        /\ Cardinality(g.edges) = 7
        /\ g.edges = (users \X cdn) \cup (cdn \X container) \cup (container \X auth)
                       \cup (container \X subapps)
        /\ \A e \in g.edges : e[2] \in subapps => e[1] \in container

C10_Witness == MfeBuilt /\ Cardinality(graphs["mfe"].nodes) = 8 /\ pc = "op2"

====
